---- MODULE Spec2Model ----
(***************************************************************************)
(* A model of ronin's configuration contexts (ronin/contexts.py) and of    *)
(* its Ninja file generator (ronin/ninja.py).                              *)
(*                                                                         *)
(* Nine specifications share the module's variables:                       *)
(*   SpecContext  Context / _Namespace objects: attribute reads, writes    *)
(*                and Context.get over chains of contexts;                 *)
(*   SpecStack    the thread-local context stacks: push, pop, peek,        *)
(*                new_context, current_context and with-blocks;            *)
(*   SpecNinja    NinjaFile.write: the recursion between _write_rule and   *)
(*                _get_inputs_from_names over a project's phases;          *)
(*   SpecWriter   _Writer.line: the wrapping of one line of the file;      *)
(*   SpecSerial   Context._write: the key=value lines of a chain of        *)
(*                contexts;                                                *)
(*   SpecRuleName the rule names _write_rule derives from phase names;     *)
(*   SpecPathify  _pathify: the escaping of a path of a build line;        *)
(*   SpecFanOut   the build edges _write_rule derives from the inputs of   *)
(*                a fan-out phase;                                         *)
(*   SpecConfig   configure_ninja, NinjaFile.__init__ and the columns and  *)
(*                mode that write reads from the context.                  *)
(***************************************************************************)
EXTENDS Integers, Sequences, FiniteSets, TLC

VARIABLES
    contexts,   \* the Context objects created so far, by identity (1..Len)
    last,       \* the last operation on a context and its outcome
    nops,       \* operations performed so far (bounds the exploration)
    locals,     \* _thread_locals: per storage cell, the ronin_context_stack
    frames,     \* per thread, the with-blocks it is inside of
    raising,    \* per thread, whether an exception is propagating
    seen,       \* per thread, what its last peek returned
    mine,       \* per thread, the contexts it has pushed and not yet popped
    nja,        \* the state of one NinjaFile and of the write in progress
    wr,         \* the state of one call of _Writer.line
    call        \* the state of one call of a helper of ninja.py

ctxVars == <<contexts, last, nops>>
stackVars == <<locals, frames, raising, seen, mine>>
notContext == <<locals, frames, raising, seen, mine, nja, wr, call>>
notStack == <<last, nops, nja, wr, call>>
notNinja == <<contexts, last, nops, locals, frames, raising, seen, mine, wr,
              call>>
notCall == <<contexts, last, nops, locals, frames, raising, seen, mine, nja,
             wr>>
vars == <<contexts, last, nops, locals, frames, raising, seen, mine, nja, wr,
          call>>

----------------------------------------------------------------------------
(* Bounds of the exploration.                                              *)

MaxContexts == 3
MaxOps == 3
MaxValue == 2

(* None, as a context reference and as a value.                            *)
None == 0

Values == 1..MaxValue

(* Names used as namespace names and as attribute names of a namespace.    *)
NsNames == {"a", "b"}
NsLOCAL == {"_name", "_context"}
NsClassAttrs == {"LOCAL"}
PlainKeys == {"k"}
AttrNames == PlainKeys \cup NsLOCAL \cup NsClassAttrs

----------------------------------------------------------------------------
(* Context and _Namespace objects.                                         *)
(*                                                                         *)
(* vars(namespace) is a function from attribute names to slots [t, v]:     *)
(*   t = "int"  an integer value v, stored by a write;                     *)
(*   t = "str"  the namespace's own name, as _Namespace.__init__ stored it *)
(*              (the key under which the Context holds the namespace);     *)
(*   t = "ctx"  a reference to Context v.                                  *)

IntSlot(v) == [t |-> "int", v |-> v]

_Namespace(name, context) ==
    ("_name" :> [t |-> "str", v |-> 0]) @@ ("_context" :> [t |-> "ctx", v |-> context])

Context(parent, immutable) ==
    [_parent |-> parent, _immutable |-> immutable, _namespaces |-> <<>>]

Outcome(kind, val) == [kind |-> kind, val |-> val]

SlotOutcome(slot) ==
    CASE slot.t = "int" -> Outcome("value", slot.v)
      [] slot.t = "str" -> Outcome("str", 0)
      [] slot.t = "ctx" -> Outcome("context", slot.v)

Raises(out) ==
    out.kind \in {"NotInContextException", "ImmutableContextException",
                  "AttributeError", "TypeError", "ValueError", "RuntimeError"}

(* Context.__getattr__: the namespace of that name, created on first use.  *)
ContextGetattr(heap, c, name) ==
    IF name \in DOMAIN heap[c]._namespaces
    THEN heap
    ELSE [heap EXCEPT ![c]._namespaces = (name :> _Namespace(name, c)) @@ @]

(* A lookup that forgets the parent: a miss on the context's own namespace  *)
(* is NotInContextException at once.                                       *)
NamespaceGetattrNoParent(heap, c, ns, name) ==
    LET h == ContextGetattr(heap, c, ns)
        d == h[c]._namespaces[ns]
    IN  IF name \in DOMAIN d
        THEN [out |-> SlotOutcome(d[name]), heap |-> h]
        ELSE [out |-> Outcome("NotInContextException", 0), heap |-> h]

(* _Namespace.__getattr__, reached when neither the instance nor the class *)
(* has the attribute; together with the attribute lookup that comes before *)
(* it. Returns the outcome and the heap (namespaces are created on the     *)
(* way up the chain).                                                      *)
RECURSIVE NamespaceGetattr(_, _, _, _)
NamespaceGetattr(heap, c, ns, name) ==
    LET h == ContextGetattr(heap, c, ns)
        d == h[c]._namespaces[ns]
    IN  IF name \in DOMAIN d
        THEN [out |-> SlotOutcome(d[name]), heap |-> h]
        ELSE IF name \in NsClassAttrs
        THEN [out |-> Outcome("classattr", 0), heap |-> h]
        ELSE IF d["_context"].t # "ctx"
        THEN [out |-> Outcome("AttributeError", 0), heap |-> h]
        ELSE IF h[d["_context"].v]._parent = None
        THEN [out |-> Outcome("NotInContextException", 0), heap |-> h]
        ELSE IF d["_name"].t # "str"
        THEN [out |-> Outcome("TypeError", 0), heap |-> h]
        ELSE NamespaceGetattr(h, h[d["_context"].v]._parent, ns, name)

(* A write that never looks at the context's _immutable flag.              *)
NamespaceSetattrUnchecked(heap, c, ns, name, value) ==
    LET h == ContextGetattr(heap, c, ns)
    IN  [out |-> Outcome("stored", value),
         heap |-> [h EXCEPT ![c]._namespaces[ns] = (name :> IntSlot(value)) @@ @]]

(* _Namespace.__setattr__, after Context.__getattr__ found the namespace.  *)
NamespaceSetattr(heap, c, ns, name, value) ==
    LET h == ContextGetattr(heap, c, ns)
        d == h[c]._namespaces[ns]
        checked == name \notin NsLOCAL
        immutable == IF d["_context"].t = "ctx"
                     THEN h[d["_context"].v]._immutable
                     ELSE FALSE   \* AttributeError, caught: pass
    IN  IF checked /\ immutable
        THEN [out |-> Outcome("ImmutableContextException", 0), heap |-> h]
        ELSE [out |-> Outcome("stored", value),
              heap |-> [h EXCEPT ![c]._namespaces[ns] = (name :> IntSlot(value)) @@ @]]

(* The names Context.get is called with, as the identifiers between the    *)
(* dots: <<"a", "k">> is "a.k".                                            *)
DottedNames ==
    {<<"a">>, <<"a", "k">>, <<"a", "_p">>, <<"a", "k", "k">>, <<"_parent", "k">>}

(* str.split('.', maxsplit): at most maxsplit + 1 pieces, the last one     *)
(* holding whatever follows the maxsplit-th dot.                           *)
Split(name, maxsplit) ==
    IF Len(name) <= maxsplit + 1
    THEN [i \in 1..Len(name) |-> <<name[i]>>]
    ELSE [i \in 1..(maxsplit + 1) |->
             IF i <= maxsplit THEN <<name[i]>> ELSE SubSeq(name, i, Len(name))]

(* Context.get(name, default).                                             *)
ContextGet(heap, c, name) ==
    IF Len(name) = 1
    THEN [out |-> Outcome("default", 0), heap |-> heap]
    ELSE LET pieces == Split(name, 2)
         IN  IF Len(pieces) # 2
             THEN [out |-> Outcome("ValueError", 0), heap |-> heap]
             ELSE LET namespace_name == pieces[1][1]
                      key == pieces[2][1]
                  IN  IF namespace_name = "_parent"
                      THEN \* getattr(self, '_parent') is the parent, not a namespace
                           IF heap[c]._parent = None
                           THEN [out |-> Outcome("AttributeError", 0), heap |-> heap]
                           ELSE [out |-> Outcome("namespace", heap[c]._parent),
                                 heap |-> ContextGetattr(heap, heap[c]._parent, key)]
                      ELSE LET r == NamespaceGetattr(heap, c, namespace_name, key)
                           IN  IF r.out.kind = "NotInContextException"
                               THEN [out |-> Outcome("default", 0), heap |-> r.heap]
                               ELSE r

----------------------------------------------------------------------------
(* Operations on contexts.                                                 *)

Ids == 1..Len(contexts)

NoLast == [op |-> "none", c |-> 0, ns |-> "", name |-> <<>>, out |-> Outcome("none", 0)]

(* Context(parent, immutable)                                              *)
NewContext(parent, immutable) ==
    /\ Len(contexts) < MaxContexts
    /\ contexts' = Append(contexts, Context(parent, immutable))
    /\ last' = [op |-> "new", c |-> Len(contexts) + 1, ns |-> "", name |-> <<>>,
                out |-> Outcome("none", 0)]
    /\ UNCHANGED <<nops, notContext>>

(* c.ns.name = value                                                       *)
SetAttr(c, ns, name, value) ==
    /\ nops < MaxOps
    /\ LET r == NamespaceSetattr(contexts, c, ns, name, value)
       IN  /\ contexts' = r.heap
           /\ last' = [op |-> "setattr", c |-> c, ns |-> ns, name |-> <<name>>, out |-> r.out]
    /\ nops' = nops + 1
    /\ UNCHANGED notContext

(* c.ns.name                                                               *)
GetAttr(c, ns, name) ==
    /\ nops < MaxOps
    /\ LET r == NamespaceGetattr(contexts, c, ns, name)
       IN  /\ contexts' = r.heap
           /\ last' = [op |-> "getattr", c |-> c, ns |-> ns, name |-> <<name>>, out |-> r.out]
    /\ nops' = nops + 1
    /\ UNCHANGED notContext

(* c.get(name, default)                                                    *)
Get(c, name) ==
    /\ nops < MaxOps
    /\ LET r == ContextGet(contexts, c, name)
       IN  /\ contexts' = r.heap
           /\ last' = [op |-> "get", c |-> c, ns |-> "", name |-> name, out |-> r.out]
    /\ nops' = nops + 1
    /\ UNCHANGED notContext

InitContext ==
    /\ contexts = <<>>
    /\ last = NoLast
    /\ nops = 0
    /\ locals = <<>>
    /\ frames = <<>>
    /\ raising = <<>>
    /\ seen = <<>>
    /\ mine = <<>>
    /\ nja = <<>>
    /\ wr = <<>>
    /\ call = <<>>

NextContext ==
    \/ \E parent \in {None} \cup Ids, immutable \in BOOLEAN :
           NewContext(parent, immutable)
    \/ \E c \in Ids, ns \in NsNames, name \in AttrNames, value \in Values :
           /\ name \in NsLOCAL => value = 1
           /\ SetAttr(c, ns, name, value)
    \/ \E c \in Ids, ns \in NsNames, name \in AttrNames :
           GetAttr(c, ns, name)
    \/ \E c \in Ids, name \in DottedNames :
           Get(c, name)

SpecContext == InitContext /\ [][NextContext]_vars

----------------------------------------------------------------------------
(* Properties of context chains.                                           *)

(* The contexts from c up to the root of its chain, c first.               *)
RECURSIVE Chain(_)
Chain(c) ==
    IF contexts[c]._parent = None THEN <<c>> ELSE <<c>> \o Chain(contexts[c]._parent)

(* Context c itself holds attribute name in its namespace ns.              *)
Defines(c, ns, name) ==
    /\ ns \in DOMAIN contexts[c]._namespaces
    /\ name \in DOMAIN contexts[c]._namespaces[ns]

(* What the claim says a read of ns.name through c yields: the value held  *)
(* by the first context of the chain that defines it.                      *)
Nearest(c, ns, name) ==
    LET chain == Chain(c)
        definers == {i \in 1..Len(chain) : Defines(chain[i], ns, name)}
    IN  IF definers = {}
        THEN Outcome("NotInContextException", 0)
        ELSE LET first == CHOOSE i \in definers : \A j \in definers : i <= j
             IN  SlotOutcome(contexts[chain[first]]._namespaces[ns][name])

(* The namespace objects named ns along c's chain still hold the _name and *)
(* _context that __init__ gave them.                                       *)
FieldsIntact(heap, c, ns) ==
    \A i \in 1..Len(Chain(c)) :
        LET x == Chain(c)[i]
        IN  ns \in DOMAIN heap[x]._namespaces =>
                /\ heap[x]._namespaces[ns]["_name"].t = "str"
                /\ heap[x]._namespaces[ns]["_context"].t = "ctx"

Wrote(c, ns, name) ==
    /\ Defines(c, ns, name)
    /\ contexts[c]._namespaces[ns][name].t = "int"

NeverSet(c, name) ==
    Len(name) = 2 => \A i \in 1..Len(Chain(c)) : ~Defines(Chain(c)[i], name[1], name[2])

(* C2: Context.get never raises, and returns the default for every name    *)
(* whose key no context of the chain has set.                              *)
C2_GetReturnsDefault ==
    last.op = "get" =>
        /\ ~Raises(last.out)
        /\ NeverSet(last.c, last.name) => last.out = Outcome("default", 0)

(* What is readable through c and its ancestors.                           *)
Readable(heap, c) ==
    [x \in {Chain(c)[i] : i \in 1..Len(Chain(c))}, ns \in NsNames, name \in AttrNames |->
        NamespaceGetattr(heap, x, ns, name).out]

----------------------------------------------------------------------------
(* The thread-local context stacks.                                        *)

MaxThreads == 2
MaxDepth == 3

Threads == 1..MaxThreads

(* threading.local(): the cell of _thread_locals that thread t reads and   *)
(* writes is its own.                                                      *)
SharedCell(t) == 1

ThreadLocalCell(t) == t

(* A cell of _thread_locals: whether the attribute ronin_context_stack is  *)
(* there, and the _ContextStack's list.                                    *)
NoStack == [has |-> FALSE, stack |-> <<>>]

(* _ContextStack.push, peek and pop; PeekOnly is a pop that removes        *)
(* nothing.                                                                *)
StackPush(stack, c) == Append(stack, c)

StackPeek(stack) == IF Len(stack) # 0 THEN stack[Len(stack)] ELSE None

PeekOnly(stack) == stack

StackPop(stack) == IF Len(stack) # 0 THEN SubSeq(stack, 1, Len(stack) - 1) ELSE stack

(* Context._push_thread_local: the stack is created on the first push.     *)
PushThreadLocal(loc, t, c) ==
    [loc EXCEPT ![ThreadLocalCell(t)] =
        [has |-> TRUE, stack |-> StackPush(IF @.has THEN @.stack ELSE <<>>, c)]]

(* Context._peek_thread_local: None when the attribute is missing.         *)
PeekThreadLocal(loc, t) ==
    IF loc[ThreadLocalCell(t)].has THEN StackPeek(loc[ThreadLocalCell(t)].stack) ELSE None

(* Context._pop_thread_local: nothing happens when the attribute is        *)
(* missing.                                                                *)
PopThreadLocal(loc, t) ==
    IF loc[ThreadLocalCell(t)].has
    THEN [loc EXCEPT ![ThreadLocalCell(t)].stack = StackPop(@)]
    ELSE loc

(* The stack thread t sees.                                                *)
StackOf(loc, t) == IF loc[ThreadLocalCell(t)].has THEN loc[ThreadLocalCell(t)].stack ELSE <<>>

(* Some thread other than t has a context on its stack.                    *)
OthersActive(t) == \E u \in Threads \ {t} : mine[u] # <<>>

(* What thread t obtained from a call, with how many contexts it had       *)
(* pushed itself at that time and whether another thread had any.          *)
Saw(t, op, val) ==
    [seen EXCEPT ![t] = [op |-> op, val |-> val, depth |-> Len(mine[t]),
                         others |-> OthersActive(t)]]

Front(seq) == SubSeq(seq, 1, Len(seq) - 1)

(* Context._peek_thread_local()                                            *)
Peek(t) ==
    /\ ~raising[t]
    /\ seen' = Saw(t, "peek", PeekThreadLocal(locals, t))
    /\ UNCHANGED <<contexts, locals, frames, raising, mine, notStack>>

(* new_context(): a child of the thread's active context, if any.          *)
NewContextInThread(t) ==
    /\ ~raising[t]
    /\ Len(contexts) < MaxContexts
    /\ contexts' = Append(contexts, Context(PeekThreadLocal(locals, t), FALSE))
    /\ seen' = Saw(t, "new_context", Len(contexts) + 1)
    /\ UNCHANGED <<locals, frames, raising, mine, notStack>>

(* current_context(immutable): NoContextException without an active        *)
(* context; an immutable child of it, or the context itself.               *)
CurrentContext(t, immutable) ==
    /\ ~raising[t]
    /\ LET ctx == PeekThreadLocal(locals, t)
       IN  IF ctx = None
           THEN /\ raising' = [raising EXCEPT ![t] = TRUE]
                /\ seen' = Saw(t, "NoContextException", None)
                /\ UNCHANGED contexts
           ELSE IF immutable
           THEN /\ Len(contexts) < MaxContexts
                /\ contexts' = Append(contexts, Context(ctx, TRUE))
                /\ seen' = Saw(t, "current_context", Len(contexts) + 1)
                /\ UNCHANGED raising
           ELSE /\ seen' = Saw(t, "current_context", ctx)
                /\ UNCHANGED <<contexts, raising>>
    /\ UNCHANGED <<locals, frames, mine, notStack>>

(* with new_context() as ctx: / with current_context() as ctx: entered     *)
(* with the context the thread has just obtained: Context.__enter__ pushes *)
(* it.                                                                     *)
Enter(t) ==
    /\ ~raising[t]
    /\ seen[t].op \in {"new_context", "current_context"}
    /\ Len(StackOf(locals, t)) < MaxDepth
    /\ locals' = PushThreadLocal(locals, t, seen[t].val)
    /\ frames' = [frames EXCEPT ![t] =
                     Append(@, [ctx |-> seen[t].val, saved |-> StackOf(locals, t)])]
    /\ mine' = [mine EXCEPT ![t] = Append(@, seen[t].val)]
    /\ UNCHANGED <<contexts, raising, seen, notStack>>

(* The innermost with-block is left normally: Context.__exit__ pops.       *)
Exit(t) ==
    /\ ~raising[t]
    /\ frames[t] # <<>>
    /\ locals' = PopThreadLocal(locals, t)
    /\ frames' = [frames EXCEPT ![t] = Front(@)]
    /\ mine' = [mine EXCEPT ![t] = Front(@)]
    /\ UNCHANGED <<contexts, raising, seen, notStack>>

(* An exception is raised in the body of a with-block.                     *)
Raise(t) ==
    /\ ~raising[t]
    /\ frames[t] # <<>>
    /\ raising' = [raising EXCEPT ![t] = TRUE]
    /\ UNCHANGED <<contexts, locals, frames, seen, mine, notStack>>

(* The exception leaves the innermost with-block: Context.__exit__ pops    *)
(* and returns None, so the exception goes on.                             *)
Unwind(t) ==
    /\ raising[t]
    /\ frames[t] # <<>>
    /\ locals' = PopThreadLocal(locals, t)
    /\ frames' = [frames EXCEPT ![t] = Front(@)]
    /\ mine' = [mine EXCEPT ![t] = Front(@)]
    /\ UNCHANGED <<contexts, raising, seen, notStack>>

(* The exception is caught by the code around the block it has reached.    *)
Catch(t) ==
    /\ raising[t]
    /\ raising' = [raising EXCEPT ![t] = FALSE]
    /\ UNCHANGED <<contexts, locals, frames, seen, mine, notStack>>

(* Context._pop_thread_local() called outside of any with-block, where    *)
(* the thread has nothing on its stack.                                    *)
PopRaw(t) ==
    /\ ~raising[t]
    /\ frames[t] = <<>>
    /\ locals' = PopThreadLocal(locals, t)
    /\ mine' = [mine EXCEPT ![t] = IF @ = <<>> THEN @ ELSE Front(@)]
    /\ UNCHANGED <<contexts, frames, raising, seen, notStack>>

InitStack ==
    /\ contexts = <<>>
    /\ last = NoLast
    /\ nops = 0
    /\ locals = [cell \in Threads |-> NoStack]
    /\ frames = [t \in Threads |-> <<>>]
    /\ raising = [t \in Threads |-> FALSE]
    /\ seen = [t \in Threads |-> [op |-> "none", val |-> None, depth |-> 0, others |-> FALSE]]
    /\ mine = [t \in Threads |-> <<>>]
    /\ nja = <<>>
    /\ wr = <<>>
    /\ call = <<>>

NextStack ==
    \/ \E t \in Threads : Peek(t)
    \/ \E t \in Threads : NewContextInThread(t)
    \/ \E t \in Threads, immutable \in BOOLEAN : CurrentContext(t, immutable)
    \/ \E t \in Threads : Enter(t)
    \/ \E t \in Threads : Exit(t)
    \/ \E t \in Threads : Raise(t)
    \/ \E t \in Threads : Unwind(t)
    \/ \E t \in Threads : Catch(t)
    \/ \E t \in Threads : PopRaw(t)

SpecStack == InitStack /\ [][NextStack]_vars

----------------------------------------------------------------------------
(* Properties of the context stacks.                                       *)

(* C4: entering a with-block pushes the context on the calling thread's    *)
(* stack and makes it the active one; leaving the block, normally or by a  *)
(* propagating exception, leaves the thread's stack with the contents and  *)
(* the top it had before the block was entered.                            *)
C4_ScopedActivationBalanced ==
    [][\A t \in Threads :
          /\ Len(frames'[t]) > Len(frames[t]) =>
                /\ StackOf(locals', t) = Append(StackOf(locals, t), frames'[t][Len(frames'[t])].ctx)
                /\ PeekThreadLocal(locals', t) = frames'[t][Len(frames'[t])].ctx
          /\ Len(frames'[t]) < Len(frames[t]) =>
                /\ StackOf(locals', t) = frames[t][Len(frames[t])].saved
                /\ PeekThreadLocal(locals', t) = StackPeek(frames[t][Len(frames[t])].saved)
      ]_vars

(* An exception has left every with-block of a thread that was inside the  *)
(* block of an immutable child of an immutable child of a context (the     *)
(* nesting of current_context() blocks in NinjaFile._write_rule and        *)
(* NinjaFile.base_path), and the thread's stack is empty again.            *)
C4_Witness ==
    \E t \in Threads :
        /\ raising[t]
        /\ frames[t] = <<>>
        /\ StackOf(locals, t) = <<>>
        /\ seen[t].op = "current_context"
        /\ contexts[seen[t].val]._immutable
        /\ contexts[seen[t].val]._parent # None
        /\ contexts[contexts[seen[t].val]._parent]._immutable
        /\ contexts[contexts[seen[t].val]._parent]._parent # None

(* C5: the stack a thread sees holds exactly the contexts that this thread *)
(* has pushed and not popped, whatever the other threads do; its active    *)
(* context is the last of them, and None when it has pushed nothing.       *)
C5_StacksIsolated ==
    \A t \in Threads :
        /\ StackOf(locals, t) = mine[t]
        /\ PeekThreadLocal(locals, t) = (IF mine[t] = <<>> THEN None ELSE mine[t][Len(mine[t])])
        /\ seen[t].op = "peek" /\ seen[t].depth = 0 => seen[t].val = None
        /\ seen[t].op = "NoContextException" => seen[t].depth = 0

(* A thread with nothing pushed peeked while another thread had an active  *)
(* context, and saw None.                                                  *)
C5_Witness ==
    \E t \in Threads :
        /\ seen[t].depth = 0
        /\ seen[t].op = "peek"
        /\ seen[t].others
        /\ seen[t].val = None
        /\ \E u \in Threads \ {t} : Len(StackOf(locals, u)) >= 2

----------------------------------------------------------------------------
(* NinjaFile.write (ronin/ninja.py) over a project's phases.               *)
(*                                                                         *)
(* A project registers some of the Phase objects of PhaseNames; a Phase    *)
(* object is identified with the name it is (or would be) registered       *)
(* under, so that no Phase object is registered under two names.  The      *)
(* classes Phase and Executor and the helpers dedup, join_path and         *)
(* change_extension are described by the specification only.               *)
(* A path is a record of its directory components, its stem and its        *)
(* extension.  The active context has paths.input, and an output root that *)
(* may differ from one write to the next; its build._phase_results, when   *)
(* it defines one, is the same mapping in every write.                     *)

MaxDeps == 2            \* entries of a phase's inputs_from
MaxWrites == 2          \* calls of write on the same NinjaFile
RecursionLimit == 4     \* nested _write_rule calls the interpreter allows

PhaseNames == {"a", "b", "c"}
Roots == {"o1", "o2"}
Prefixes == {"", "lib"}
NoName == ""
NoPhase == ""
NoOutput == ""

Path(dir, stem, ext) == [dir |-> dir, stem |-> stem, ext |-> ext]

(* ctx.paths.input                                                         *)
InputBase == <<"in">>

(* Phase.inputs as declared by the build script.                           *)
DeclaredInputs ==
    [p \in PhaseNames |->
        IF p = "a"
        THEN << Path(<<"in">>, "x", "c"), Path(<<"in">>, "y", "c"),
                Path(<<"in">>, "x", "c"), Path(<<>>, "z", "c") >>
        ELSE <<>>]

(* Phase.output: "b" has a single explicit output, the others fan out.     *)
PhaseOutput == [p \in PhaseNames |-> IF p = "b" THEN "app" ELSE NoOutput]

(* Executor.output_extension                                               *)
OutputExtension ==
    [p \in PhaseNames |-> IF p = "a" THEN "o" ELSE IF p = "b" THEN "exe" ELSE "s"]

(* Executor._deps_file: only the compiling phase asks for a depfile.       *)
HasDepsFile == [p \in PhaseNames |-> p = "a"]

(* How a phase's inputs_from names its sources: Phase objects or names.    *)
InputsFromForm == [p \in PhaseNames |-> IF p = "b" THEN "name" ELSE "ref"]

DepSeqs == UNION {[1..n -> PhaseNames] : n \in 0..MaxDeps}

Range(seq) == {seq[i] : i \in 1..Len(seq)}

RECURSIVE Dedup(_)
(* dedup: the first occurrence of every element, in order.                 *)
Dedup(seq) ==
    IF seq = <<>> THEN <<>>
    ELSE LET front == Dedup(Front(seq))
             x == seq[Len(seq)]
         IN IF x \in Range(front) THEN front ELSE Append(front, x)

(* join_path(base, path), path relative.                                   *)
JoinPath(base, path) == [path EXCEPT !.dir = base \o @]

(* change_extension(path, extension)                                       *)
ChangeExtension(path, ext) == [path EXCEPT !.ext = ext]

(* A fan-out that leaves the input root in place.                          *)
KeepBase(path, base) == path

(* output.startswith(input_base) and the slice that removes it.            *)
StartsWith(dir, base) ==
    /\ Len(dir) >= Len(base)
    /\ SubSeq(dir, 1, Len(base)) = base
StripBase(path, base) ==
    IF StartsWith(path.dir, base)
    THEN [path EXCEPT !.dir = SubSeq(@, Len(base) + 1, Len(@))]
    ELSE path

(* The output directory for an executor's output_type; other output types  *)
(* leave output_base unassigned.                                           *)
OutputBaseBound(output_type) == output_type \in {"object", "binary"}
OutputBase(output_type, root) ==
    IF output_type = "object" THEN <<root, "obj">> ELSE <<root, "bin">>

(* output_prefix + path: the prefix is put in front of the whole path, so  *)
(* of its first component.                                                 *)
PrependPrefix(prefix, path) ==
    IF prefix = "" THEN path
    ELSE IF path.dir # <<>> THEN [path EXCEPT !.dir[1] = prefix \o @]
    ELSE [path EXCEPT !.stem = prefix \o @]

(* The output of a single-output phase.                                    *)
SingleOutput(phase, base, prefix) ==
    PrependPrefix(prefix,
        ChangeExtension(JoinPath(base, Path(<<>>, PhaseOutput[phase], "")),
                        OutputExtension[phase]))

(* The output a fan-out phase derives from one input.                      *)
FanOutOutput(phase, base, input) ==
    JoinPath(base, ChangeExtension(StripBase(input, InputBase),
                                   OutputExtension[phase]))

(* rule_name = phase_name.replace(' ', '_'); no name here has a space.     *)
RuleName(phase_name) == phase_name

(* The lines written to the file.                                          *)
Line(kind, rule, output, inputs) ==
    [kind |-> kind, rule |-> rule, output |-> output, inputs |-> inputs]
BlankLine == Line("blank", NoName, <<>>, <<>>)
RuleHeader(phase_name) ==
    << BlankLine,
       Line("rule", RuleName(phase_name), <<>>, <<>>),
       Line("description", RuleName(phase_name), <<>>, <<>>),
       Line("command", RuleName(phase_name), <<>>, <<>>) >>
    \o (IF HasDepsFile[phase_name]
        THEN << Line("depfile", RuleName(phase_name), <<>>, <<>>),
                Line("deps", RuleName(phase_name), <<>>, <<>>) >>
        ELSE <<>>)
BuildLine(phase_name, output, inputs) ==
    Line("build", RuleName(phase_name), output, inputs)

(* The comments write puts at the head of the file: the project, the time  *)
(* of generation, the columns.                                             *)
FileHeader ==
    << Line("comment", NoName, <<>>, <<>>),
       Line("comment", NoName, <<>>, <<>>),
       Line("comment", NoName, <<>>, <<>>) >>

(* Project.get_phase_name and Project.phases.get                           *)
GetPhaseName(registered, phase) ==
    IF phase \in registered THEN phase ELSE NoName
PhasesGet(registered, name) ==
    IF name \in registered THEN name ELSE NoPhase

(* inputs_from is phase                                                    *)
IsSelf(inputs_from, phase) == inputs_from = phase

(* phase_name in all_phase_outputs                                         *)
NeverWritten(all_phase_outputs, phase_name) == FALSE
AlreadyWritten(all_phase_outputs, phase_name) ==
    phase_name \in DOMAIN all_phase_outputs

(* all_phase_outputs[phase_name] = phase_outputs                           *)
Put(all_phase_outputs, phase_name, phase_outputs) ==
    (phase_name :> phase_outputs) @@ all_phase_outputs

(* What a call of _write_rule records in all_phase_outputs before it       *)
(* resolves the phase's inputs_from: nothing.                              *)
MemoOnCallMarks(all_phase_outputs, phase_name) ==
    Put(all_phase_outputs, phase_name, <<>>)
MemoOnCall(all_phase_outputs, phase_name) == all_phase_outputs

(* An exception leaves write; the stack is kept as the traceback.          *)
Fail(st, kind) == [st EXCEPT !.status = "error", !.err = kind]

NewFrame(phase_name) == [name |-> phase_name, i |-> 1, names |-> <<>>]

(* A call of _write_rule: return at once for a phase already written,      *)
(* otherwise start resolving its inputs_from.                              *)
CallWriteRule(st, phase_name) ==
    IF AlreadyWritten(st.all_phase_outputs, phase_name)
    THEN st
    ELSE IF Len(st.stack) >= RecursionLimit
    THEN Fail(st, "RecursionLimit")
    ELSE [st EXCEPT !.stack = Append(@, NewFrame(phase_name)),
                    !.all_phase_outputs = MemoOnCall(@, phase_name)]

(* The call of _write_rule for an entry of inputs_from.                    *)
NoCallForInputsFrom(st, name) == st
CallForInputsFrom(st, name) == CallWriteRule(st, name)

(* phase_results = results.get(phase), an empty list stored under the      *)
(* phase when there is none; results is the context's                      *)
(* build._phase_results.                                                   *)
GetPhaseResults(results, phase) ==
    IF phase \in DOMAIN results THEN results ELSE Put(results, phase, <<>>)

(* phase_results.append(output) for each of the outputs                    *)
AppendPhaseResults(results, phase, outputs) ==
    [results EXCEPT ![phase] = @ \o outputs]

RECURSIVE ExtendInputs(_, _, _)
(* inputs += all_phase_outputs[name] for every name, until a missing key.  *)
ExtendInputs(inputs, names, all_phase_outputs) ==
    IF names = <<>> THEN inputs
    ELSE IF Head(names) \notin DOMAIN all_phase_outputs THEN inputs
    ELSE ExtendInputs(inputs \o all_phase_outputs[Head(names)], Tail(names),
                      all_phase_outputs)

(* _write_rule once inputs_from is resolved: the rule, then the build      *)
(* edges; the frame returns.                                               *)
WriteRuleBody(st, phase_name, names) ==
    LET output_type == st.output_type[phase_name]
        bound == OutputBaseBound(output_type)
        output_base == OutputBase(output_type, st.root)
        single == PhaseOutput[phase_name] # NoOutput
        st1 == [st EXCEPT
                  !.all_phase_outputs = Put(@, phase_name, <<>>),
                  !.results = IF st.has_results
                              THEN GetPhaseResults(@, phase_name) ELSE @,
                  !.out = @ \o RuleHeader(phase_name)]
        extended == ExtendInputs(st.inputs[phase_name], names,
                                 st1.all_phase_outputs)
        st2 == [st1 EXCEPT !.inputs[phase_name] = extended]
        inputs == Dedup(extended)
        st3 == [st2 EXCEPT !.resolved = Put(@, phase_name, inputs)]
        output == SingleOutput(phase_name, output_base,
                               st.output_prefix[phase_name])
        outputs == [k \in 1..Len(inputs) |->
                       FanOutOutput(phase_name, output_base, inputs[k])]
    IN  IF single /\ ~bound
        THEN Fail(st1, "UnboundLocalError")
        ELSE IF \E n \in Range(names) : n \notin DOMAIN st1.all_phase_outputs
        THEN Fail(st2, "KeyError")
        ELSE IF single
        THEN [st3 EXCEPT
                !.out = @ \o <<BlankLine, BuildLine(phase_name, output, inputs)>>,
                !.all_phase_outputs = Put(@, phase_name, <<output>>),
                !.results = IF st.has_results
                            THEN AppendPhaseResults(@, phase_name, <<output>>)
                            ELSE @,
                !.stack = Front(@)]
        ELSE IF inputs # <<>>
        THEN IF ~bound
             THEN Fail([st3 EXCEPT !.out = Append(@, BlankLine)],
                       "UnboundLocalError")
             ELSE [st3 EXCEPT
                     !.out = @ \o <<BlankLine>> \o
                             [k \in 1..Len(inputs) |->
                                 BuildLine(phase_name, outputs[k], <<inputs[k]>>)],
                     !.all_phase_outputs = Put(@, phase_name, outputs),
                     !.results = IF st.has_results
                                 THEN AppendPhaseResults(@, phase_name, outputs)
                                 ELSE @,
                     !.stack = Front(@)]
        ELSE [st3 EXCEPT !.stack = Front(@)]

(* write(io) is called in a context whose output root is root.             *)
WriteBegin(root) ==
    /\ nja.status # "running"
    /\ nja.writes < MaxWrites
    /\ nja' = [nja EXCEPT !.status = "running", !.err = "",
                          !.writes = @ + 1, !.root = root,
                          !.todo = nja.registered,
                          !.all_phase_outputs = <<>>, !.resolved = <<>>,
                          !.stack = <<>>, !.out = FileHeader]
    /\ UNCHANGED notNinja

(* The loop of write takes the next phase of the phase map, in any order.  *)
Iterate(phase_name) ==
    /\ nja.status = "running"
    /\ nja.stack = <<>>
    /\ phase_name \in nja.todo
    /\ nja' = CallWriteRule([nja EXCEPT !.todo = @ \ {phase_name}], phase_name)
    /\ UNCHANGED notNinja

(* One turn of the loop of _get_inputs_from_names in the innermost call.   *)
ResolveInputsFrom ==
    /\ nja.status = "running"
    /\ nja.stack # <<>>
    /\ LET top == Len(nja.stack)
           f == nja.stack[top]
           phase == f.name
       IN /\ f.i <= Len(nja.inputs_from[phase])
          /\ LET value == nja.inputs_from[phase][f.i]
                 byRef == InputsFromForm[phase] = "ref"
                 name == IF byRef THEN GetPhaseName(nja.registered, value)
                                  ELSE value
                 inputs_from == IF byRef THEN value
                                         ELSE PhasesGet(nja.registered, name)
             IN nja' =
                  IF byRef /\ name = NoName
                  THEN Fail(nja, "NotInProject")
                  ELSE IF ~byRef /\ inputs_from = NoPhase
                  THEN Fail(nja, "NotInProject")
                  ELSE IF IsSelf(inputs_from, phase)
                  THEN Fail(nja, "ContainsSelf")
                  ELSE CallForInputsFrom(
                         [nja EXCEPT !.stack[top].i = @ + 1,
                                     !.stack[top].names = Append(@, name)],
                         name)
    /\ UNCHANGED notNinja

(* The innermost call has resolved its inputs_from and writes its rule.    *)
WriteRule ==
    /\ nja.status = "running"
    /\ nja.stack # <<>>
    /\ LET f == nja.stack[Len(nja.stack)]
       IN /\ f.i > Len(nja.inputs_from[f.name])
          /\ nja' = WriteRuleBody(nja, f.name, f.names)
    /\ UNCHANGED notNinja

(* The loop of write is over: write returns.                               *)
WriteEnd ==
    /\ nja.status = "running"
    /\ nja.stack = <<>>
    /\ nja.todo = {}
    /\ nja' = [nja EXCEPT !.status = "done"]
    /\ UNCHANGED notNinja

(* Executor.output_type: "c" may have an executor of another output type.  *)
OutputType(p, other) ==
    IF p = "b" THEN "binary"
    ELSE IF p = "c" /\ other THEN "other" ELSE "object"

(* Executor.output_prefix: only the linking phase "b" may have one.        *)
OutputPrefix(p, prefix) == IF p = "b" THEN prefix ELSE ""

InitNinja ==
    /\ contexts = <<>>
    /\ last = NoLast
    /\ nops = 0
    /\ locals = <<>>
    /\ frames = <<>>
    /\ raising = <<>>
    /\ seen = <<>>
    /\ mine = <<>>
    /\ wr = <<>>
    /\ call = <<>>
    /\ \E registered \in SUBSET PhaseNames,
          inputs_from \in [PhaseNames -> DepSeqs],
          other \in BOOLEAN,
          prefix \in Prefixes,
          has_results \in BOOLEAN :
          /\ \A p \in PhaseNames \ registered : inputs_from[p] = <<>>
          /\ other => "c" \in registered
          /\ prefix # "" => "b" \in registered
          /\ nja = [registered |-> registered,
                    inputs_from |-> inputs_from,
                    output_type |-> [p \in PhaseNames |-> OutputType(p, other)],
                    output_prefix |-> [p \in PhaseNames |-> OutputPrefix(p, prefix)],
                    inputs |-> DeclaredInputs,
                    writes |-> 0,
                    status |-> "idle",
                    err |-> "",
                    root |-> "",
                    todo |-> {},
                    all_phase_outputs |-> <<>>,
                    resolved |-> <<>>,
                    has_results |-> has_results,
                    results |-> <<>>,
                    stack |-> <<>>,
                    out |-> <<>>]

NextNinja ==
    \/ \E root \in Roots : WriteBegin(root)
    \/ \E phase_name \in PhaseNames : Iterate(phase_name)
    \/ ResolveInputsFrom
    \/ WriteRule
    \/ WriteEnd

SpecNinja == InitNinja /\ [][NextNinja]_vars

----------------------------------------------------------------------------
(* Properties of NinjaFile.write.                                          *)

(* B declares A as an input-source, by reference or by name.               *)
Declares(B, A) ==
    /\ B \in nja.registered
    /\ A \in nja.registered
    /\ A \in Range(nja.inputs_from[B])

RECURSIVE ReachesIn(_, _, _)
(* A chain of at most n declarations leads from p to q.                    *)
ReachesIn(p, q, n) ==
    /\ n > 0
    /\ \/ Declares(p, q)
       \/ \E r \in PhaseNames : Declares(p, r) /\ ReachesIn(r, q, n - 1)

Reaches(p, q) == ReachesIn(p, q, Cardinality(PhaseNames))

(* The positions of the lines of a phase's block, and of its rule line.    *)
LinesOf(p) == {i \in 1..Len(nja.out) : nja.out[i].rule = RuleName(p)}
RuleLinesOf(p) == {i \in LinesOf(p) : nja.out[i].kind = "rule"}
RuleLines == {i \in 1..Len(nja.out) : nja.out[i].kind = "rule"}

StackNames == [i \in 1..Len(nja.stack) |-> nja.stack[i].name]

(* C6: when B declares A as an input-source, every line of A's block is    *)
(* written before every line of B's block, B's block is written only if    *)
(* A's is, A's rule line is never written twice, and it is written exactly *)
(* once when write returns, in whatever order the phase map is iterated.   *)
C6_SourcesWrittenFirstAndOnce ==
    \A A \in PhaseNames, B \in PhaseNames :
        Declares(B, A) =>
            /\ \A i \in LinesOf(A), j \in LinesOf(B) : i < j
            /\ LinesOf(B) # {} => RuleLinesOf(A) # {}
            /\ Cardinality(RuleLinesOf(A)) <= 1
            /\ nja.status = "done" => Cardinality(RuleLinesOf(A)) = 1

(* The loop of write started with "c", which declares "a" and "b"; "b"     *)
(* declares "a" too.  Both are written, "a" first and once, and the loop   *)
(* has yet to come to them.                                                *)
C6_Witness ==
    /\ nja.status = "running"
    /\ nja.registered = PhaseNames
    /\ nja.inputs_from["c"] = <<"b", "a">>
    /\ nja.inputs_from["b"] = <<"a">>
    /\ nja.inputs_from["a"] = <<>>
    /\ StackNames = <<"c">>
    /\ nja.todo = {"a", "b"}
    /\ Cardinality(RuleLinesOf("a")) = 1
    /\ Cardinality(RuleLinesOf("b")) = 1
    /\ \A i \in LinesOf("a"), j \in LinesOf("b") : i < j

DeclaresSelf(p) == Declares(p, p)

DeclarationErrors == {"ContainsSelf", "NotInProject"}

(* C7: in a project with a phase that declares itself as an input-source,  *)
(* write never returns normally, an exception that leaves write is a       *)
(* declaration error, the phase is never inside its own resolution, and    *)
(* no line of its block is written.                                        *)
C7_SelfReferenceIsDeclarationError ==
    \A p \in PhaseNames :
        DeclaresSelf(p) =>
            /\ nja.status # "done"
            /\ nja.status = "error" => nja.err \in DeclarationErrors
            /\ Cardinality({i \in 1..Len(nja.stack) : nja.stack[i].name = p}) <= 1
            /\ LinesOf(p) = {}

(* p is on a cycle that goes through another phase.                        *)
OnIndirectCycle(p) ==
    \E q \in PhaseNames \ {p} : Reaches(p, q) /\ Reaches(q, p)

AllRegistered ==
    \A p \in nja.registered : Range(nja.inputs_from[p]) \subseteq nja.registered

AllTyped ==
    \A p \in nja.registered : OutputBaseBound(nja.output_type[p])

(* A project whose only defect is an indirect cycle.                       *)
OnlyIndirectCycles ==
    /\ AllRegistered
    /\ AllTyped
    /\ \A p \in PhaseNames : ~DeclaresSelf(p)
    /\ \E p \in PhaseNames : OnIndirectCycle(p)

(* C8: a phase on an indirect cycle is never recorded in the memoization   *)
(* map and no line of its block is written; write never returns normally;  *)
(* and in a project whose only defect is an indirect cycle the only        *)
(* exception that leaves write is the interpreter's, raised in a call for  *)
(* a phase on the cycle when the recursion has reached the interpreter's   *)
(* limit.                                                                  *)
C8_IndirectCycleRecursesToTheLimit ==
    /\ \A p \in PhaseNames :
          OnIndirectCycle(p) =>
              /\ p \notin DOMAIN nja.all_phase_outputs
              /\ LinesOf(p) = {}
              /\ nja.status # "done"
    /\ OnlyIndirectCycles /\ nja.status = "error" =>
          /\ nja.err = "RecursionLimit"
          /\ Len(nja.stack) = RecursionLimit
          /\ OnIndirectCycle(nja.stack[Len(nja.stack)].name)

(* "a" and "b" declare each other and nothing else: the calls alternate    *)
(* between them up to the limit, and neither has a line in the file.       *)
C8_Witness ==
    /\ nja.status = "error"
    /\ nja.err = "RecursionLimit"
    /\ nja.inputs_from["a"] = <<"b">>
    /\ nja.inputs_from["b"] = <<"a">>
    /\ Len(nja.stack) = RecursionLimit
    /\ \A i \in 1..Len(nja.stack) - 1 : StackNames[i] # StackNames[i + 1]
    /\ Range(StackNames) = {"a", "b"}
    /\ LinesOf("a") = {}
    /\ LinesOf("b") = {}

(* An acyclic project, all of whose dependencies are registered and all of *)
(* whose executors have output type object or binary.                      *)
GoodProject ==
    /\ AllRegistered
    /\ AllTyped
    /\ \A p \in PhaseNames : ~Reaches(p, p)

RECURSIVE Sum(_, _)
Sum(f, S) ==
    IF S = {} THEN 0
    ELSE LET x == CHOOSE y \in S : TRUE IN f[x] + Sum(f, S \ {x})

(* The work left to a write in progress: its return, the phases yet to be  *)
(* visited by the loop, the entries yet to be resolved by the calls in     *)
(* progress, and the calls yet to be made for the phases not yet written.  *)
WorkLeft(st) ==
    (IF st.status = "running" THEN 1 ELSE 0)
    + Cardinality(st.todo)
    + Sum([i \in 1..Len(st.stack) |->
              Len(st.inputs_from[st.stack[i].name]) - st.stack[i].i + 2],
          1..Len(st.stack))
    + Sum([p \in PhaseNames |->
              IF /\ p \in st.registered
                 /\ p \notin DOMAIN st.all_phase_outputs
                 /\ \A i \in 1..Len(st.stack) : st.stack[i].name # p
              THEN Len(st.inputs_from[p]) + 3 ELSE 0],
          PhaseNames)

C9_StateOf(st) ==
    /\ st.status # "error"
    /\ Len(st.stack) <= Cardinality(st.registered)
    /\ st.status = "done" =>
          /\ Cardinality({i \in 1..Len(st.out) : st.out[i].kind = "rule"})
                = Cardinality(st.registered)
          /\ \A p \in st.registered :
                Cardinality({i \in 1..Len(st.out) :
                                /\ st.out[i].kind = "rule"
                                /\ st.out[i].rule = RuleName(p)}) = 1

(* C9: for an acyclic project whose dependencies are all registered and    *)
(* whose executors have output type object or binary, no exception leaves  *)
(* write, every step of a write in progress reduces the work left (so      *)
(* write terminates), and when write returns the file has one rule line    *)
(* per registered phase, as many rule lines as phases, in whatever order   *)
(* the phase map is iterated.                                              *)
C9_AcyclicWriteTerminatesOneRulePerPhase ==
    [][GoodProject =>
          /\ C9_StateOf(nja)
          /\ C9_StateOf(nja')
          /\ nja.status = "running" =>
                /\ WorkLeft(nja') < WorkLeft(nja)
                /\ WorkLeft(nja') >= 0]_vars

(* The second write of a project of three phases, "c" on "b" on "a", has   *)
(* returned with three rule lines.                                         *)
C9_Witness ==
    /\ GoodProject
    /\ nja.status = "done"
    /\ nja.writes = MaxWrites
    /\ nja.registered = PhaseNames
    /\ nja.inputs_from["c"] = <<"b">>
    /\ nja.inputs_from["b"] = <<"a">>
    /\ Cardinality(RuleLines) = 3

RECURSIVE OutputsOf(_, _)
(* The output lists of the named phases, one after the other.              *)
OutputsOf(names, all_phase_outputs) ==
    IF names = <<>> THEN <<>>
    ELSE all_phase_outputs[Head(names)] \o OutputsOf(Tail(names), all_phase_outputs)

(* C10: the resolved inputs of a written phase are its declared inputs     *)
(* followed by the outputs of its input-source phases in declaration       *)
(* order, without the later occurrences of a path.                         *)
C10_ResolvedInputs ==
    \A p \in DOMAIN nja.resolved :
        nja.resolved[p] =
            Dedup(DeclaredInputs[p] \o
                  OutputsOf(nja.inputs_from[p], nja.all_phase_outputs))

(* The build lines of a phase's block, in the order written.               *)
BuildLinesOf(p) == {i \in LinesOf(p) : nja.out[i].kind = "build"}

(* The phase's _write_rule has returned in this write.                     *)
Written(p) ==
    /\ p \in DOMAIN nja.resolved
    /\ p \in DOMAIN nja.all_phase_outputs
    /\ \A i \in 1..Len(nja.stack) : nja.stack[i].name # p

(* The directory the context gives for an output kind.                     *)
DirectoryOfKind(kind) ==
    IF kind = "object" THEN <<nja.root, "obj">> ELSE <<nja.root, "bin">>

(* C11: a written phase with an explicit output has exactly one build      *)
(* line; its inputs are the deduplicated inputs and its output is the      *)
(* declared name with the executor's prefix and the executor's extension,  *)
(* in the directory of the executor's output kind, whatever the prefix.    *)
C11_SingleOutputEdge ==
    \A p \in PhaseNames :
        Written(p) /\ PhaseOutput[p] # NoOutput =>
            /\ Cardinality(BuildLinesOf(p)) = 1
            /\ \A i \in BuildLinesOf(p) :
                  /\ nja.out[i].inputs = nja.resolved[p]
                  /\ nja.out[i].output =
                        Path(DirectoryOfKind(nja.output_type[p]),
                             nja.output_prefix[p] \o PhaseOutput[p],
                             OutputExtension[p])

(* The path relative to a directory it lies under; the path itself when it *)
(* does not lie under it.                                                  *)
RelativeTo(path, dir) ==
    IF Len(path.dir) >= Len(dir) /\ SubSeq(path.dir, 1, Len(dir)) = dir
    THEN Path(SubSeq(path.dir, Len(dir) + 1, Len(path.dir)), path.stem, path.ext)
    ELSE path

WithExtension(path, ext) == Path(path.dir, path.stem, ext)

(* The build lines of a phase, in the order written.                       *)
BuildSeqOf(p) ==
    SelectSeq(nja.out, LAMBDA l : l.kind = "build" /\ l.rule = RuleName(p))

FanOutWritten(p) == Written(p) /\ PhaseOutput[p] = NoOutput

(* C12, as amended: a written fan-out phase has one build line per         *)
(* deduplicated input, in order, and the output of each, taken relative to *)
(* the output directory, is the input, taken relative to the input root    *)
(* when it lies under it, with the executor's extension.                   *)
C12_FanOutRoundTrip ==
    \A p \in PhaseNames :
        FanOutWritten(p) =>
            /\ Len(BuildSeqOf(p)) = Len(nja.resolved[p])
            /\ \A k \in 1..Len(BuildSeqOf(p)) :
                  /\ BuildSeqOf(p)[k].inputs = <<nja.resolved[p][k]>>
                  /\ StartsWith(BuildSeqOf(p)[k].output.dir,
                                DirectoryOfKind(nja.output_type[p]))
                  /\ RelativeTo(BuildSeqOf(p)[k].output,
                                DirectoryOfKind(nja.output_type[p]))
                        = WithExtension(RelativeTo(nja.resolved[p][k], InputBase),
                                        OutputExtension[p])

(* C12 as stated: the output relative to the output directory is the       *)
(* input itself with the executor's extension, also for an input under     *)
(* the input root.                                                         *)
C12_FanOutRoundTripOfInput ==
    \A p \in PhaseNames :
        FanOutWritten(p) =>
            /\ Len(BuildSeqOf(p)) = Len(nja.resolved[p])
            /\ \A k \in 1..Len(BuildSeqOf(p)) :
                  RelativeTo(BuildSeqOf(p)[k].output,
                             DirectoryOfKind(nja.output_type[p]))
                     = WithExtension(nja.resolved[p][k], OutputExtension[p])

(* "a" has fanned out its four declared inputs, one of them twice and one  *)
(* outside the input root, into three build lines.                         *)
C12_Witness ==
    /\ nja.status = "done"
    /\ FanOutWritten("a")
    /\ Len(nja.inputs["a"]) = 4
    /\ Len(BuildSeqOf("a")) = 3
    /\ \E k \in 1..3 : StartsWith(BuildSeqOf("a")[k].inputs[1].dir, InputBase)
    /\ \E k \in 1..3 : ~StartsWith(BuildSeqOf("a")[k].inputs[1].dir, InputBase)

(* The lines of a phase's block, in the order written.                     *)
BlockOf(p) == SelectSeq(nja.out, LAMBDA l : l.rule = RuleName(p))

HeaderKinds(p) ==
    <<"rule", "description", "command">>
    \o (IF HasDepsFile[p] THEN <<"depfile", "deps">> ELSE <<>>)

(* C13: in the file of a write that has returned, the block of every       *)
(* registered phase is its rule, description and command lines, its        *)
(* depfile and deps lines if any, and then at least one build line.        *)
C13_EveryBlockHasBuildLines ==
    nja.status = "done" =>
        \A p \in nja.registered :
            LET block == BlockOf(p)
                n == Len(HeaderKinds(p))
            IN /\ Len(block) > n
               /\ \A k \in 1..Len(block) :
                     block[k].kind = IF k <= n THEN HeaderKinds(p)[k] ELSE "build"

----------------------------------------------------------------------------
(* Dependencies that are not phases of the project.                        *)

(* p is a phase of the project and an entry of its inputs_from is not.     *)
ListsUnregistered(p) ==
    /\ p \in nja.registered
    /\ \E n \in Range(nja.inputs_from[p]) : n \notin nja.registered

(* The frames of the calls of _write_rule for p that are in progress.      *)
FramesOf(p) == {i \in 1..Len(nja.stack) : nja.stack[i].name = p}

(* C19: when a phase that write has reached lists a dependency that is not *)
(* a phase of the project, write does not return normally, the exception   *)
(* that leaves it is a declaration error, the resolution of the phase      *)
(* never goes past the unregistered entry, and no line of the phase's      *)
(* block, nor of a phase not yet resolved, is written.                     *)
C19_UnregisteredDependencyIsDeclarationError ==
    \A p \in PhaseNames :
        ListsUnregistered(p) =>
            /\ nja.status # "done"
            /\ (nja.status = "error" /\ FramesOf(p) # {})
                   => nja.err \in DeclarationErrors
            /\ \A i \in FramesOf(p) :
                   \A k \in 1..(nja.stack[i].i - 1) :
                       nja.inputs_from[p][k] \in nja.registered
            /\ LinesOf(p) = {}
            /\ \A q \in PhaseNames \ DOMAIN nja.all_phase_outputs :
                   LinesOf(q) = {}

----------------------------------------------------------------------------
(* The outputs reported in the context's build._phase_results.             *)

(* C20: when the context defines build._phase_results and write has        *)
(* returned, the entry of every phase in the mapping is the list of the    *)
(* outputs of the phase's build edges in that write, the list memoized in  *)
(* all_phase_outputs, whether it is the first write in the context or not. *)
C20_PhaseResultsAreOutputsOfThisWrite ==
    (nja.has_results /\ nja.status = "done") =>
        \A p \in DOMAIN nja.results :
            /\ p \in DOMAIN nja.all_phase_outputs
            /\ nja.results[p] = nja.all_phase_outputs[p]

----------------------------------------------------------------------------
(* What write does to the project.                                         *)

(* C21: when write has returned, the inputs of every phase are the inputs  *)
(* the build script declared: the outputs of its input-source phases have  *)
(* not been added to them.                                                 *)
C21_WriteLeavesDeclaredInputs ==
    nja.status = "done" => nja.inputs = DeclaredInputs

----------------------------------------------------------------------------
(* The output directory of an executor's output kind.                      *)

(* C25: the build lines of a phase are written with an output directory    *)
(* defined for the output kind of its executor, and when write fails       *)
(* inside the call for a phase whose output kind has no output directory,  *)
(* no line of that phase's block has been written.                         *)
C25_NoHeaderWithoutOutputDirectory ==
    /\ \A p \in PhaseNames :
           BuildLinesOf(p) # {} => OutputBaseBound(nja.output_type[p])
    /\ (nja.status = "error" /\ nja.stack # <<>>) =>
           LET p == nja.stack[Len(nja.stack)].name
           IN OutputBaseBound(nja.output_type[p]) \/ LinesOf(p) = {}

----------------------------------------------------------------------------
(* _Writer.line (ronin/ninja.py), with the columns and the mode that       *)
(* NinjaFile.write gives to the _Writer it creates.                        *)
(*                                                                         *)
(* A line is a sequence of characters; an index of the code, which counts  *)
(* from 0, is the position minus one.                                      *)

MaxChunks == 5          \* pieces a line is made of

_MINIMUM_COLUMNS_STRICT == 30
IndentLength == 2       \* len(_INDENT)

Run(n) == [i \in 1..n |-> "a"]

(* The pieces of a line: single characters and runs long enough to reach   *)
(* the columns of strict mode.                                             *)
Chunks == {<<"a">>, <<" ">>, <<"$">>, Run(12), Run(25)}

RECURSIVE Flatten(_)
Flatten(seqs) ==
    IF seqs = <<>> THEN <<>> ELSE Head(seqs) \o Flatten(Tail(seqs))

Lines == {Flatten(cs) : cs \in UNION {[1..n -> Chunks] : n \in 0..MaxChunks}}

(* ninja.file_columns as configured; None is no wrapping.                  *)
ColumnsChoices == {None, 3, 6, 29, 31}

Indents == {0, 1}

Max(x, y) == IF x > y THEN x ELSE y
Min(x, y) == IF x < y THEN x ELSE y

(* A slice bound as Python reads it: a negative bound counts from the end. *)
SliceBound(k, n) == IF k < 0 THEN Max(k + n, 0) ELSE Min(k, n)

(* A slice that starts one character late.                                 *)
SliceFromNext(line, k) == SubSeq(line, SliceBound(k, Len(line)) + 2, Len(line))

(* line[:k] and line[k:]                                                   *)
SliceTo(line, k) == SubSeq(line, 1, SliceBound(k, Len(line)))
SliceFrom(line, k) == SubSeq(line, SliceBound(k, Len(line)) + 1, Len(line))

(* line.rfind(' ', 0, end) and line.find(' ', start): an index or -1.      *)
Rfind(line, end) ==
    LET found == {i \in 0..(SliceBound(end, Len(line)) - 1) : line[i + 1] = " "}
    IN IF found = {} THEN -1 ELSE CHOOSE i \in found : \A j \in found : j <= i
Find(line, start) ==
    LET found == {i \in SliceBound(start, Len(line))..(Len(line) - 1) :
                     line[i + 1] = " "}
    IN IF found = {} THEN -1 ELSE CHOOSE i \in found : \A j \in found : i <= j

RECURSIVE DollarCount(_, _)
(* The loop of _is_unescaped: the '$' at dollar_index and before it, while *)
(* dollar_index > 0.                                                       *)
DollarCount(line, dollar_index) ==
    IF dollar_index > 0 /\ line[dollar_index + 1] = "$"
    THEN 1 + DollarCount(line, dollar_index - 1)
    ELSE 0

(* A count of the '$' that goes on to index 0.                             *)
RECURSIVE DollarCountToStart(_, _)
DollarCountToStart(line, dollar_index) ==
    IF dollar_index >= 0 /\ line[dollar_index + 1] = "$"
    THEN 1 + DollarCountToStart(line, dollar_index - 1)
    ELSE 0

(* _Writer._is_unescaped(line, i)                                          *)
IsUnescaped(line, i) == DollarCount(line, i - 1) % 2 = 0

RECURSIVE FirstTry(_, _)
(* The last space before index space that _is_unescaped accepts, or -1.    *)
FirstTry(line, space) ==
    LET found == Rfind(line, space)
    IN IF found < 0 \/ IsUnescaped(line, found) THEN found
       ELSE FirstTry(line, found)

RECURSIVE SecondTry(_, _)
(* The first space after index space that _is_unescaped accepts, or -1.    *)
SecondTry(line, space) ==
    LET found == Find(line, space + 1)
    IN IF found < 0 \/ IsUnescaped(line, found) THEN found
       ELSE SecondTry(line, found)

(* while leading_space_length + len(line) > self._columns                  *)
TooLong(w) == w.leading + Len(w.line) > w.columns

Width(w) == w.columns - w.leading - 2

(* The index the two tries leave in space.                                 *)
BreakSpace(w) ==
    LET first == FirstTry(w.line, Width(w))
    IN IF first < 0 /\ ~w.strict THEN SecondTry(w.line, Width(w) - 1)
       ELSE first

(* A physical line of the file: indentation, text, continuation marker.    *)
Physical(indentation, text, mark) ==
    [indentation |-> indentation, text |-> text, mark |-> mark]

(* Columns that write leaves as configured in strict mode too.             *)
ConfiguredColumns(columns, strict) == columns

(* NinjaFile.write: the columns and the mode of the _Writer.               *)
EffectiveColumns(columns, strict) ==
    IF strict /\ columns # None /\ columns < _MINIMUM_COLUMNS_STRICT
    THEN _MINIMUM_COLUMNS_STRICT
    ELSE columns

WriterColumns ==
    /\ wr.pc = "write"
    /\ wr' = [wr EXCEPT !.pc = "line",
                        !.columns = EffectiveColumns(wr.configured, wr.strict),
                        !.line = wr.line0,
                        !.indentation = IndentLength * wr.indent,
                        !.leading = IndentLength * wr.indent]
    /\ UNCHANGED <<ctxVars, stackVars, nja, call>>

(* self._columns is None: the line is written as it is.                    *)
LineUnwrapped ==
    /\ wr.pc = "line"
    /\ wr.columns = None
    /\ wr' = [wr EXCEPT !.pc = "done",
                        !.out = Append(@, Physical(wr.indentation, wr.line, ""))]
    /\ UNCHANGED <<ctxVars, stackVars, nja, call>>

(* One turn of the loop that breaks at a space.                            *)
LineBreakAtSpace ==
    /\ wr.pc = "line"
    /\ wr.columns # None
    /\ TooLong(wr)
    /\ BreakSpace(wr) # -1
    /\ LET space == BreakSpace(wr)
       IN wr' = [wr EXCEPT
                   !.out = Append(@, Physical(wr.indentation,
                                              SliceTo(wr.line, space), " $")),
                   !.line = SliceFrom(wr.line, space + 1),
                   !.broken = TRUE,
                   !.indentation = IF wr.broken THEN @ ELSE @ + IndentLength,
                   !.leading = IF wr.broken THEN @ ELSE @ + IndentLength]
    /\ UNCHANGED <<ctxVars, stackVars, nja, call>>

(* One turn of the loop that, in strict mode, breaks anywhere.             *)
LineBreakAnywhere ==
    /\ wr.pc = "line"
    /\ wr.columns # None
    /\ TooLong(wr)
    /\ BreakSpace(wr) = -1
    /\ wr.strict
    /\ LET width == Width(wr) + 1
       IN wr' = [wr EXCEPT
                   !.out = Append(@, Physical(wr.indentation,
                                              SliceTo(wr.line, width), "$")),
                   !.line = SliceFrom(wr.line, width)]
    /\ UNCHANGED <<ctxVars, stackVars, nja, call>>

(* The loop is left, by its condition or by its break; the rest is written. *)
LineLast ==
    /\ wr.pc = "line"
    /\ wr.columns # None
    /\ \/ ~TooLong(wr)
       \/ BreakSpace(wr) = -1 /\ ~wr.strict
    /\ wr' = [wr EXCEPT !.pc = "done",
                        !.out = Append(@, Physical(wr.indentation, wr.line, ""))]
    /\ UNCHANGED <<ctxVars, stackVars, nja, call>>

InitWriter ==
    /\ contexts = <<>>
    /\ last = NoLast
    /\ nops = 0
    /\ locals = <<>>
    /\ frames = <<>>
    /\ raising = <<>>
    /\ seen = <<>>
    /\ mine = <<>>
    /\ nja = <<>>
    /\ call = <<>>
    /\ \E line \in Lines, indent \in Indents,
          columns \in ColumnsChoices, strict \in BOOLEAN :
          wr = [line0 |-> line, indent |-> indent,
                configured |-> columns, strict |-> strict,
                pc |-> "write", columns |-> None,
                line |-> <<>>, indentation |-> 0, leading |-> 0,
                broken |-> FALSE, out |-> <<>>]

NextWriter ==
    \/ WriterColumns
    \/ LineUnwrapped
    \/ LineBreakAtSpace
    \/ LineBreakAnywhere
    \/ LineLast

SpecWriter == InitWriter /\ [][NextWriter]_vars

----------------------------------------------------------------------------
(* Properties of _Writer.line.                                             *)

(* The '$' at the end of a text, all of them.                              *)
TrailingDollars(text) == DollarCountToStart(text, Len(text) - 1)

(* C14: every break made at a space is made at an unescaped space: the     *)
(* text before the break never ends with an odd number of '$', also when   *)
(* those '$' begin at the first character of the remaining line.           *)
C14_BreaksAtUnescapedSpaces ==
    \A k \in 1..Len(wr.out) :
        wr.out[k].mark = " $" => TrailingDollars(wr.out[k].text) % 2 = 0

RECURSIVE Rejoin(_)
(* The physical lines without indentation and continuation markers, the    *)
(* space of a break at a space put back.                                   *)
Rejoin(out) ==
    IF out = <<>> THEN <<>>
    ELSE Head(out).text
         \o (IF Head(out).mark = " $" THEN <<" ">> ELSE <<>>)
         \o Rejoin(Tail(out))

(* C15: the segments written so far followed by the rest of the line are   *)
(* the original line, and when line returns the segments alone are; the    *)
(* indentation of a physical line is that of the call, two more after the  *)
(* first break.                                                            *)
C15_WrappingIsLossless ==
    wr.pc \in {"line", "done"} =>
        /\ wr.pc = "line" => Rejoin(wr.out) \o wr.line = wr.line0
        /\ wr.pc = "done" => Rejoin(wr.out) = wr.line0
        /\ \A k \in 1..Len(wr.out) :
              /\ wr.out[k].mark = "" <=> (wr.pc = "done" /\ k = Len(wr.out))
              /\ wr.out[k].indentation =
                    IndentLength * wr.indent
                    + (IF \E j \in 1..(k - 1) : wr.out[j].mark = " $"
                       THEN IndentLength ELSE 0)

(* A line wrapped in strict mode into at least three physical lines, with  *)
(* a break at a space and a break anywhere.                                *)
C15_Witness ==
    /\ wr.pc = "done"
    /\ wr.strict
    /\ Len(wr.out) >= 3
    /\ \E k \in 1..Len(wr.out) : wr.out[k].mark = " $"
    /\ \E k \in 1..Len(wr.out) : wr.out[k].mark = "$"
    /\ \E k \in 1..Len(wr.line0) : wr.line0[k] = "$"

(* C16: no physical line that is continued ends inside an escape sequence: *)
(* its text never ends with an odd number of '$', whose last one would     *)
(* escape the character after the break or be read with the continuation   *)
(* character as an escaped dollar.                                         *)
C16_NoBreakInsideEscape ==
    \A k \in 1..Len(wr.out) :
        wr.out[k].mark # "" => TrailingDollars(wr.out[k].text) % 2 = 0

PhysicalLength(p) ==
    p.indentation + Len(p.text)
    + (IF p.mark = " $" THEN 2 ELSE IF p.mark = "$" THEN 1 ELSE 0)

C17_StateOf(w) ==
    /\ w.pc # "write" =>
          /\ w.strict /\ w.configured # None /\ w.configured < 30
                => w.columns = 30
          /\ ~(w.strict /\ w.configured # None /\ w.configured < 30)
                => w.columns = w.configured
    /\ w.strict /\ w.columns # None =>
          \A k \in 1..Len(w.out) : PhysicalLength(w.out[k]) <= w.columns

(* C17: in strict mode columns below 30 become 30 and other columns stay   *)
(* as configured, as do all columns in non-strict mode; in strict mode no  *)
(* physical line, with its indentation and its continuation marker, is     *)
(* longer than the columns; and every turn of the loop of line shortens    *)
(* the rest of the line, so that line returns.                             *)
C17_StrictLinesFitAndWrappingTerminates ==
    [][/\ C17_StateOf(wr)
       /\ C17_StateOf(wr')
       /\ wr.pc = "line" /\ wr'.pc = "line"
             => Len(wr'.line) < Len(wr.line)]_vars

(* Columns 29 in strict mode: a line broken anywhere into physical lines   *)
(* of 30 characters.                                                       *)
C17_Witness ==
    /\ wr.pc = "done"
    /\ wr.strict
    /\ wr.configured = 29
    /\ wr.columns = 30
    /\ Len(wr.out) >= 3
    /\ \E k \in 1..Len(wr.out) :
          wr.out[k].mark = "$" /\ PhysicalLength(wr.out[k]) = 30

----------------------------------------------------------------------------
(* Context._write (ronin/contexts.py): the textual form of a context.      *)

(* The attribute names written to namespaces here.                         *)
SerialKeys == {"j", "k", "_p"}

(* The order of str on the names in use.                                   *)
NameOrder == <<"LOCAL", "_context", "_name", "_p", "a", "b", "j", "k">>
Rank(name) == CHOOSE i \in 1..Len(NameOrder) : NameOrder[i] = name

(* name.startswith('_')                                                    *)
StartsWithUnderscore(name) == name \in {"_context", "_name", "_p"}

RECURSIVE Sorted(_)
(* sorted(names)                                                           *)
Sorted(names) ==
    IF names = {} THEN <<>>
    ELSE LET least == CHOOSE n \in names : \A m \in names : Rank(n) <= Rank(m)
         IN <<least>> \o Sorted(names \ {least})

Entry(key, value) == [key |-> key, value |-> value]

(* r[key] = value on an OrderedDict: a key already there keeps its place.  *)
OrderedSet(r, key, value) ==
    IF \E i \in 1..Len(r) : r[i].key = key
    THEN [i \in 1..Len(r) |-> IF r[i].key = key THEN Entry(key, value) ELSE r[i]]
    ELSE Append(r, Entry(key, value))

(* _Namespace._all_local: the sorted keys of vars(self) that are neither   *)
(* in LOCAL nor private.                                                   *)
AllLocalKeys(namespace) ==
    Sorted({k \in DOMAIN namespace :
               k \notin NsLOCAL /\ ~StartsWithUnderscore(k)})

RECURSIVE UpdateFromNamespace(_, _, _, _)
UpdateFromNamespace(r, ns, namespace, keys) ==
    IF keys = <<>> THEN r
    ELSE UpdateFromNamespace(
             OrderedSet(r, <<ns, Head(keys)>>, namespace[Head(keys)].v),
             ns, namespace, Tail(keys))

RECURSIVE UpdateFromNamespaces(_, _, _)
UpdateFromNamespaces(r, namespaces, names) ==
    IF names = <<>> THEN r
    ELSE UpdateFromNamespaces(
             UpdateFromNamespace(r, Head(names), namespaces[Head(names)],
                                 AllLocalKeys(namespaces[Head(names)])),
             namespaces, Tail(names))

RECURSIVE ContextAll(_, _)
(* Context._all: the parent's entries, updated with the context's own.     *)
ContextAll(heap, c) ==
    UpdateFromNamespaces(
        IF heap[c]._parent # None THEN ContextAll(heap, heap[c]._parent) ELSE <<>>,
        heap[c]._namespaces,
        Sorted(DOMAIN heap[c]._namespaces))

(* Context._write: a line for every entry whose dotted key is not private. *)
ContextWrite(heap, c) ==
    SelectSeq(ContextAll(heap, c), LAMBDA e : ~StartsWithUnderscore(e.key[1]))

(* c._write(io)                                                            *)
Write(c) ==
    /\ last' = [op |-> "write", c |-> c, ns |-> "", name |-> <<>>,
                out |-> Outcome("lines", ContextWrite(contexts, c))]
    /\ UNCHANGED <<contexts, nops, notContext>>

NextSerial ==
    \/ \E parent \in {None} \cup Ids, immutable \in BOOLEAN :
           NewContext(parent, immutable)
    \/ \E c \in Ids, ns \in NsNames, name \in SerialKeys, value \in Values :
           SetAttr(c, ns, name, value)
    \/ \E c \in Ids : Write(c)

SpecSerial == InitContext /\ [][NextSerial]_vars

(* The entries the claim makes visible through c: every public key a       *)
(* context of the chain holds, with the value of the nearest holder.       *)
VisibleKeys(c) ==
    {key \in NsNames \X (SerialKeys \ {"_p"}) :
        \E i \in 1..Len(Chain(c)) : Defines(Chain(c)[i], key[1], key[2])}

(* The order of the dotted keys: by namespace, then by key.                *)
KeyBefore(k1, k2) ==
    \/ Rank(k1[1]) < Rank(k2[1])
    \/ k1[1] = k2[1] /\ Rank(k1[2]) < Rank(k2[2])

RECURSIVE SortedKeys(_)
SortedKeys(keys) ==
    IF keys = {} THEN <<>>
    ELSE LET least == CHOOSE k \in keys : \A m \in keys \ {k} : KeyBefore(k, m)
         IN <<least>> \o SortedKeys(keys \ {least})

ExpectedLines(c) ==
    LET keys == SortedKeys(VisibleKeys(c))
    IN [i \in 1..Len(keys) |->
           Entry(keys[i], Nearest(c, keys[i][1], keys[i][2]).val)]

(* C18: the lines written for a context are one per visible entry of its   *)
(* chain, with the value of the nearest context that holds the key,        *)
(* without private keys, sorted by namespace and then by key over the      *)
(* whole chain.                                                            *)
C18_SerializationSortedAcrossChain ==
    last.op = "write" => last.out.val = ExpectedLines(last.c)

----------------------------------------------------------------------------
(* The rule names of a project's phases (ronin/ninja.py, _write_rule).     *)
(*                                                                         *)
(* Here a phase name is a sequence of characters, so that the replacement  *)
(* of its spaces is computed.                                              *)

MaxNameLen == 3         \* characters of a phase name

NameChars == {"a", " ", "_"}

(* The sequences of 1..n elements of S.                                    *)
SeqsUpTo(S, n) == UNION {[1..k -> S] : k \in 1..n}

PhaseNameStrings == SeqsUpTo(NameChars, MaxNameLen)

(* value.replace(old, new) for single characters old and new.              *)
ReplaceChar(value, old, new) ==
    [i \in 1..Len(value) |-> IF value[i] = old THEN new ELSE value[i]]

(* rule_name = phase_name.replace(' ', '_')                                *)
RuleNameOf(phase_name) == ReplaceChar(phase_name, " ", "_")

(* _write_rule writes 'rule %s' % rule_name for a phase of the project.    *)
WriteRuleLine(phase_name) ==
    /\ phase_name \in call.todo
    /\ call' = [call EXCEPT
                  !.todo = @ \ {phase_name},
                  !.rules = (phase_name :> RuleNameOf(phase_name)) @@ @]
    /\ UNCHANGED notCall

(* A project with two phases; the keys of a dict are distinct.             *)
InitRuleName ==
    /\ contexts = <<>>
    /\ last = NoLast
    /\ nops = 0
    /\ locals = <<>>
    /\ frames = <<>>
    /\ raising = <<>>
    /\ seen = <<>>
    /\ mine = <<>>
    /\ nja = <<>>
    /\ wr = <<>>
    /\ \E n1 \in PhaseNameStrings, n2 \in PhaseNameStrings :
          /\ n1 # n2
          /\ call = [phases |-> {n1, n2}, todo |-> {n1, n2}, rules |-> <<>>]

NextRuleName ==
    \/ \E phase_name \in PhaseNameStrings : WriteRuleLine(phase_name)

SpecRuleName == InitRuleName /\ [][NextRuleName]_vars

(* C22: the rule names written for two phases registered under different   *)
(* names are different.                                                    *)
C22_RuleNamesDistinct ==
    \A n1 \in DOMAIN call.rules, n2 \in DOMAIN call.rules :
        n1 # n2 => call.rules[n1] # call.rules[n2]

----------------------------------------------------------------------------
(* The escaping of a path of a build line (ronin/ninja.py, _pathify).      *)

MaxPathLen == 4         \* characters of a path

PathChars == {"a", " ", "$", ":"}

PathStrings == {<<>>} \cup SeqsUpTo(PathChars, MaxPathLen)

RECURSIVE Replace(_, _, _)
(* value.replace(old, new): the occurrences of old from the left, without  *)
(* overlap.                                                                *)
Replace(value, old, new) ==
    IF Len(value) < Len(old) THEN value
    ELSE IF SubSeq(value, 1, Len(old)) = old
    THEN new \o Replace(SubSeq(value, Len(old) + 1, Len(value)), old, new)
    ELSE <<Head(value)>> \o Replace(Tail(value), old, new)

(* _pathify(value)                                                         *)
_pathify(value) ==
    Replace(Replace(Replace(value, <<"$", " ">>, <<"$", "$", " ">>),
                    <<" ">>, <<"$", " ">>),
            <<":">>, <<"$", ":">>)

(* A path of a build line is escaped.                                      *)
Pathify ==
    /\ call.pc = "path"
    /\ call' = [call EXCEPT !.pc = "token", !.token = _pathify(call.value)]
    /\ UNCHANGED notCall

InitPathify ==
    /\ contexts = <<>>
    /\ last = NoLast
    /\ nops = 0
    /\ locals = <<>>
    /\ frames = <<>>
    /\ raising = <<>>
    /\ seen = <<>>
    /\ mine = <<>>
    /\ nja = <<>>
    /\ wr = <<>>
    /\ \E value \in PathStrings :
          call = [pc |-> "path", value |-> value, token |-> <<>>]

NextPathify ==
    \/ Pathify

SpecPathify == InitPathify /\ [][NextPathify]_vars

(* The character at position i of a token is escaped: the '$' right before *)
(* it are an odd number.                                                   *)
Escaped(token, i) == DollarCountToStart(token, i - 2) % 2 = 1

(* C23: in the token made of a path every space and every colon is         *)
(* escaped, so that neither ends the token in a build line.                *)
C23_TokenHasNoBareSpaceOrColon ==
    call.pc = "token" =>
        \A i \in 1..Len(call.token) :
            call.token[i] \in {" ", ":"} => Escaped(call.token, i)

----------------------------------------------------------------------------
(* The build edges of one fan-out phase (ronin/ninja.py, _write_rule).     *)

MaxInputs == 3          \* inputs of the phase

(* Sources under the input root and outside it, with two extensions.       *)
InputPaths ==
    {Path(dir, stem, ext) : dir \in {<<>>, InputBase, <<"lib">>},
                            stem \in {"x", "y"},
                            ext \in {"c", "cc"}}

InputSeqs == {<<>>} \cup SeqsUpTo(InputPaths, MaxInputs)

(* inputs = dedup(inputs) of a phase without input-source phases.          *)
FanOutBegin ==
    /\ call.pc = "inputs"
    /\ call' = [call EXCEPT !.pc = "edges", !.inputs = Dedup(call.declared)]
    /\ UNCHANGED notCall

(* One turn of the loop over the inputs: the build edge of the next input. *)
FanOutEdge ==
    /\ call.pc = "edges"
    /\ Len(call.outputs) < Len(call.inputs)
    /\ LET input == call.inputs[Len(call.outputs) + 1]
           output == FanOutOutput("a", OutputBase("object", "o1"), input)
       IN call' = [call EXCEPT !.outputs = Append(@, output)]
    /\ UNCHANGED notCall

InitFanOut ==
    /\ contexts = <<>>
    /\ last = NoLast
    /\ nops = 0
    /\ locals = <<>>
    /\ frames = <<>>
    /\ raising = <<>>
    /\ seen = <<>>
    /\ mine = <<>>
    /\ nja = <<>>
    /\ wr = <<>>
    /\ \E declared \in InputSeqs :
          call = [pc |-> "inputs", declared |-> declared, inputs |-> <<>>,
                  outputs |-> <<>>]

NextFanOut ==
    \/ FanOutBegin
    \/ FanOutEdge

SpecFanOut == InitFanOut /\ [][NextFanOut]_vars

(* C24: the outputs of the build edges of a fan-out phase, one edge for    *)
(* each of its deduplicated inputs, are pairwise different.                *)
C24_FanOutOutputsDistinct ==
    \A i \in 1..Len(call.outputs), j \in 1..Len(call.outputs) :
        i # j => call.outputs[i] # call.outputs[j]

----------------------------------------------------------------------------
(* The configuration of the columns (ronin/ninja.py: configure_ninja,      *)
(* NinjaFile.__init__ and the head of NinjaFile.write).                    *)
(*                                                                         *)
(* A Python value is a sequence here: empty for None, of the value         *)
(* otherwise.  ns is the ninja namespace of the active context, a root     *)
(* context: the attributes that were set, by name.                         *)

DEFAULT_COLUMNS == 100

PyNone == <<>>
Box(v) == <<v>>
Unbox(value) == IF value = PyNone THEN None ELSE value[1]

(* The truth value of None, False or True.                                 *)
Truthy(value) == value # PyNone /\ value[1]

ColumnsArgs == {PyNone} \cup {Box(c) : c \in ColumnsChoices \ {None}}
StrictArgs == {PyNone, Box(FALSE), Box(TRUE)}

(* ctx.ninja.<key> = value                                                 *)
NinjaSetattr(ns, key, value) == (key :> value) @@ ns

(* ctx.get('ninja.<key>', default): an attribute that is set is returned,  *)
(* None too.                                                               *)
NinjaGet(ns, key, default) ==
    IF key \in DOMAIN ns THEN ns[key] ELSE default

(* ctx.fallback(value, 'ninja.<key>', default)                             *)
NinjaFallback(ns, value, key, default) ==
    IF value = PyNone THEN NinjaGet(ns, key, default) ELSE value

(* A build script sets the key that write reads for the mode.              *)
SetFileColumnsStrict(value) ==
    /\ call.pc = "start"
    /\ ~call.configured
    /\ "file_columns_strict" \notin DOMAIN call.ns
    /\ call' = [call EXCEPT
                  !.ns = NinjaSetattr(@, "file_columns_strict", value)]
    /\ UNCHANGED notCall

(* configure_ninja(columns=columns, strict=strict)                         *)
ConfigureNinja(columns, strict) ==
    /\ call.pc = "start"
    /\ ~call.configured
    /\ call' = [call EXCEPT
                  !.configured = TRUE,
                  !.cfg = [columns |-> columns, strict |-> strict],
                  !.ns = NinjaSetattr(
                           NinjaSetattr(
                             NinjaSetattr(
                               NinjaSetattr(@, "command", PyNone),
                               "file_name", PyNone),
                             "file_columns", columns),
                           "file_strict", strict)]
    /\ UNCHANGED notCall

(* NinjaFile(project, columns=columns, strict=strict)                      *)
NinjaFileInit(columns, strict) ==
    /\ call.pc = "start"
    /\ ~call.constructed
    /\ call' = [call EXCEPT
                  !.constructed = TRUE,
                  !.args = [columns |-> columns, strict |-> strict],
                  !.self = [columns |-> PyNone, strict |-> PyNone]]
    /\ UNCHANGED notCall

(* The head of write: the columns and the mode it gives to the _Writer.    *)
WriteHead ==
    /\ call.pc = "start"
    /\ call.constructed
    /\ LET columns == NinjaFallback(call.ns, call.self.columns,
                                    "file_columns", Box(DEFAULT_COLUMNS))
           strict == NinjaFallback(call.ns, call.self.strict,
                                   "file_columns_strict", Box(FALSE))
       IN call' = [call EXCEPT
                     !.pc = "written",
                     !.strict = Truthy(strict),
                     !.columns = EffectiveColumns(Unbox(columns),
                                                  Truthy(strict))]
    /\ UNCHANGED notCall

InitConfig ==
    /\ contexts = <<>>
    /\ last = NoLast
    /\ nops = 0
    /\ locals = <<>>
    /\ frames = <<>>
    /\ raising = <<>>
    /\ seen = <<>>
    /\ mine = <<>>
    /\ nja = <<>>
    /\ wr = <<>>
    /\ call = [pc |-> "start", ns |-> <<>>,
               configured |-> FALSE,
               cfg |-> [columns |-> PyNone, strict |-> PyNone],
               constructed |-> FALSE,
               args |-> [columns |-> PyNone, strict |-> PyNone],
               self |-> [columns |-> PyNone, strict |-> PyNone],
               columns |-> None, strict |-> FALSE]

NextConfig ==
    \/ \E value \in StrictArgs \ {PyNone} : SetFileColumnsStrict(value)
    \/ \E columns \in ColumnsArgs, strict \in StrictArgs :
          ConfigureNinja(columns, strict)
    \/ \E columns \in ColumnsArgs, strict \in StrictArgs :
          NinjaFileInit(columns, strict)
    \/ WriteHead

SpecConfig == InitConfig /\ [][NextConfig]_vars

(* The value the constructor of the NinjaFile was given, or else the one   *)
(* configure_ninja was given.                                              *)
Chosen(arg, configured) == IF arg # PyNone THEN arg ELSE configured

(* C26: after configure_ninja(columns=c, strict=s) with c and s given,     *)
(* write gives the _Writer the mode s and the columns c, raised to the     *)
(* minimum of strict mode, unless the constructor of the NinjaFile was     *)
(* given a value, which then comes first.                                  *)
C26_WriteUsesConfiguredColumnsAndMode ==
    (/\ call.pc = "written"
     /\ call.configured
     /\ call.cfg.columns # PyNone
     /\ call.cfg.strict # PyNone) =>
        LET columns == Chosen(call.args.columns, call.cfg.columns)
            strict == Chosen(call.args.strict, call.cfg.strict)
        IN /\ call.strict = Truthy(strict)
           /\ call.columns = EffectiveColumns(Unbox(columns), Truthy(strict))

====
